---- MODULE Spec2Model ----
(***************************************************************************)
(* Model of src/tagger/preset.py: the Preset store (component, load, save, *)
(* apply, list) and sanitize_filename_part.                                *)
(*                                                                         *)
(* Text (labels, paths, file names) is a sequence of one-character         *)
(* strings.  A Python value (a widget value, an attribute) is a string     *)
(* holding its repr; a dict is a function whose DOMAIN is its key set.     *)
(***************************************************************************)
EXTENDS Integers, Sequences, FiniteSets, TLC

VARIABLES
    dirExists,      \* base_dir exists on disk
    files,          \* entries of base_dir: file name -> content
    default_values, \* Preset.default_values
    components,     \* Preset.components
    result,         \* what the last call returned or raised
    resolved        \* inputs and outputs of the pure functions run on their own

vars == <<dirExists, files, default_values, components, result, resolved>>

----------------------------------------------------------------------------
(* Bounds of the model *)

MaxComponents == 2   \* widgets registered in a session
MaxChanging == 1     \* the first widgets of the registry change their attributes
MaxDepth == 2        \* ancestors of a widget in the path resolver's trees
MaxAffix == 2        \* characters before and after the filler of a sanitized text

----------------------------------------------------------------------------
(* Text helpers *)

EmptyDict == <<>>

Min2(a, b) == IF a < b THEN a ELSE b

EndsWith(text, suffix) ==
    /\ Len(text) >= Len(suffix)
    /\ SubSeq(text, Len(text) - Len(suffix) + 1, Len(text)) = suffix

RECURSIVE LStrip(_, _)
LStrip(text, chars) ==
    IF text # <<>> /\ Head(text) \in chars THEN LStrip(Tail(text), chars) ELSE text

RECURSIVE RStrip(_, _)
RStrip(text, chars) ==
    IF text # <<>> /\ text[Len(text)] \in chars
    THEN RStrip(SubSeq(text, 1, Len(text) - 1), chars)
    ELSE text

RECURSIVE Join(_, _)
Join(parts, sep) ==
    IF parts = <<>> THEN <<>>
    ELSE IF Len(parts) = 1 THEN parts[1]
    ELSE parts[1] \o sep \o Join(Tail(parts), sep)

----------------------------------------------------------------------------
(* sanitize_filename_part *)

invalid_filename_chars ==
    {"<", ">", ":", "\"", "/", "\\", "|", "?", "*", "\n", "\r", "\t"}
invalid_filename_prefix == {" "}
invalid_filename_postfix == {" ", "."}
max_filename_part_length == 128

ReplaceSpaces(text) ==
    [i \in 1..Len(text) |-> IF text[i] = " " THEN "_" ELSE text[i]]

Translate(text) ==
    [i \in 1..Len(text) |-> IF text[i] \in invalid_filename_chars THEN "_" ELSE text[i]]

\* sanitize_filename_part with the postfix stripped before the text is cut
sanitize_filename_part_StripFirst(text, replace_spaces) ==
    LET t1 == IF replace_spaces THEN ReplaceSpaces(text) ELSE text
        t2 == Translate(t1)
        t3 == RStrip(LStrip(t2, invalid_filename_prefix), invalid_filename_postfix)
    IN SubSeq(t3, 1, Min2(Len(t3), max_filename_part_length))

sanitize_filename_part(text, replace_spaces) ==
    LET t1 == IF replace_spaces THEN ReplaceSpaces(text) ELSE text
        t2 == Translate(t1)
        t3 == LStrip(t2, invalid_filename_prefix)
        t4 == SubSeq(t3, 1, Min2(Len(t3), max_filename_part_length))
    IN RStrip(t4, invalid_filename_postfix)

----------------------------------------------------------------------------
(* Python dicts and the JSON codec *)

Get(d, k, dflt) == IF k \in DOMAIN d THEN d[k] ELSE dflt

Put(d, k, v) == [x \in DOMAIN d \cup {k} |-> IF x = k THEN v ELSE d[x]]

\* DictUnpack with the operands swapped: on a key of both, a's value is kept
DictUnpackKeepFirst(a, b) ==
    [k \in DOMAIN a \cup DOMAIN b |-> IF k \in DOMAIN a THEN a[k] ELSE b[k]]

\* {**a, **b}: on a key of both, b's value is kept
DictUnpack(a, b) ==
    [k \in DOMAIN a \cup DOMAIN b |-> IF k \in DOMAIN b THEN b[k] ELSE a[k]]

None == "None"

\* Values a caller hands to save; "(1, 2)" is a tuple
Values == {"v1", "(1, 2)"}

\* json.loads(json.dumps(v)): a tuple is written as an array and read as a list
JsonDumpsLoads(v) == IF v = "(1, 2)" THEN "[1, 2]" ELSE v

JsonBag(bag) == [k \in DOMAIN bag |-> JsonDumpsLoads(bag[k])]

JsonObject(configs) == [p \in DOMAIN configs |-> JsonBag(configs[p])]

----------------------------------------------------------------------------
(* Path resolution (Preset.component, the walk over Context.block) *)

Anonymous == [has_label |-> FALSE, label |-> <<>>]
Labelled(l) == [has_label |-> TRUE, label |-> l]

\* WalkParents that ends the walk at the first ancestor without a label
RECURSIVE WalkParentsStop(_, _)
WalkParentsStop(chain, paths) ==
    IF chain = <<>> \/ ~Head(chain).has_label THEN paths
    ELSE WalkParentsStop(Tail(chain), <<Head(chain).label>> \o paths)

\* chain[1] is Context.block, chain[i+1] is chain[i].parent; the last has no parent
RECURSIVE WalkParents(_, _)
WalkParents(chain, paths) ==
    IF chain = <<>> THEN paths
    ELSE WalkParents(Tail(chain),
                     IF Head(chain).has_label THEN <<Head(chain).label>> \o paths
                     ELSE paths)

ResolvePath(chain, label) == Join(WalkParents(chain, <<label>>), <<"/">>)

----------------------------------------------------------------------------
(* Widgets *)

SavedAttrs == <<"visible", "min", "max", "step">>

\* component_class: the attributes its instances have and their values when
\* the constructor is not given them
Slider   == [exposes |-> {"visible", "min", "max", "step"},
             defaults |-> [a \in {"visible", "min", "max", "step"} |->
                              IF a = "visible" THEN "True"
                              ELSE IF a = "max" THEN "10"
                              ELSE IF a = "min" THEN "0" ELSE "1"]]
Dropdown == [exposes |-> {"choices"},
             defaults |-> [a \in {"choices"} |-> {"v1"}]]
Classes == {Slider, Dropdown}

\* component_class(**args): attributes come from the arguments, else the defaults
Construct(cls, args) ==
    [a \in cls.exposes |-> IF a \in DOMAIN args THEN args[a] ELSE cls.defaults[a]]

HasAttr(component, a) == a \in DOMAIN component.attrs

----------------------------------------------------------------------------
(* The preset directory *)

JsonExt == <<".", "j", "s", "o", "n">>
default_filename == <<"d", "e", "f", "a", "u", "l", "t">> \o JsonExt

ObjectFile(configs) == [kind |-> "object", data |-> configs]
ArrayFile == [kind |-> "array", data |-> EmptyDict]
NotJsonFile == [kind |-> "not_json", data |-> EmptyDict]
Directory == [kind |-> "directory", data |-> EmptyDict]

\* base_dir.joinpath(sanitize_filename_part(filename)), after the suffix is added
ResolveFile(filename) ==
    sanitize_filename_part(
        IF EndsWith(filename, JsonExt) THEN filename ELSE filename \o JsonExt,
        TRUE)

\* Path.is_file()
IsFile(fs, fname) == fname \in DOMAIN fs /\ fs[fname].kind # "directory"

\* json.loads raises on text that is not JSON (path is the resolved file)
LoadRaises(fs, path) == IsFile(fs, path) /\ fs[path].kind = "not_json"

\* the second element of load's result: {} without a file, else the decoded JSON
LoadConfigs(fs, path) == IF IsFile(fs, path) THEN fs[path] ELSE ObjectFile(EmptyDict)

----------------------------------------------------------------------------
(* Inputs of the calls *)

PathGT == <<"G", "/", "T">>
PathX == <<"X">>

P1 == <<"p", "1">>
Names == {default_filename, P1}

\* the names save is called with
SaveNames == {P1}

\* Context.block and its parents
Chains == {<<Anonymous, Labelled(<<"G">>)>>}

\* **kwargs: without a label, with an empty one, with a label alone, and with
\* a label, a value and a visible flag
KwargSets ==
    { EmptyDict,
      [k \in {"label"} |-> <<>>],
      [k \in {"label"} |-> <<"T">>],
      [k \in {"label", "value", "visible"} |->
          IF k = "label" THEN <<"T">> ELSE IF k = "value" THEN "v2" ELSE "True"] }

ValueSeqs == UNION {[1..n -> Values] : n \in 0..MaxComponents}

AttrValues(a) ==
    CASE a = "visible" -> {"True", "False"}
      [] a = "min" -> {"0"}
      [] a = "max" -> {"10"}
      [] a = "step" -> {"1"}
      [] a = "choices" -> {{"v1"}, {"v2"}}

DefaultBag ==
    [k \in {"value", "visible", "min"} |->
        IF k = "value" THEN "v1" ELSE IF k = "visible" THEN "False" ELSE "1"]

StoredBag == [k \in {"value", "max"} |-> IF k = "value" THEN "v2" ELSE "9"]
StoredBagX == [k \in {"value"} |-> "v1"]

Notes == <<"n", "o", "t", "e", "s">>
OldDir == <<"o", "l", "d">> \o JsonExt

NoFiles == <<>>
OneFile(name, content) == [f \in {name} |-> content]

\* a directory with a default preset, a preset p1, a file that is no preset
\* and a subdirectory named like one
FullStore ==
    [exists |-> TRUE,
     files |-> [f \in {default_filename, P1 \o JsonExt, Notes, OldDir} |->
                  IF f = default_filename
                  THEN ObjectFile([p \in {PathGT} |-> DefaultBag])
                  ELSE IF f = P1 \o JsonExt
                  THEN ObjectFile([p \in {PathGT, PathX} |->
                                      IF p = PathGT THEN StoredBag ELSE StoredBagX])
                  ELSE IF f = Notes THEN NotJsonFile
                  ELSE Directory]]

\* the directory as the session finds it
InitialStores ==
    { [exists |-> FALSE, files |-> NoFiles],
      [exists |-> TRUE, files |-> NoFiles],
      FullStore,
      [exists |-> TRUE, files |-> OneFile(P1 \o JsonExt, NotJsonFile)],
      [exists |-> TRUE, files |-> OneFile(P1 \o JsonExt, ArrayFile)] }

----------------------------------------------------------------------------
(* Preset.__init__ *)

NoResult == [op |-> "init", status |-> "ok"]

Init ==
    \E store \in InitialStores :
        /\ ~LoadRaises(store.files, ResolveFile(default_filename))
        /\ dirExists = store.exists
        /\ files = store.files
        /\ default_values = LoadConfigs(store.files, ResolveFile(default_filename))
        /\ components = <<>>
        /\ result = NoResult
        /\ resolved = {}

----------------------------------------------------------------------------
(* Preset.component *)

\* Register with the new widget put first in the registry
RegisterPrepend(cls, chain, kwargs) ==
    /\ Len(components) < MaxComponents
    /\ IF "label" \notin DOMAIN kwargs
       THEN /\ result' = [op |-> "register", status |-> "KeyError", kwargs |-> kwargs]
            /\ UNCHANGED components
       ELSE LET path == ResolvePath(chain, kwargs["label"])
                args == DictUnpack(kwargs, Get(default_values.data, path, EmptyDict))
                component == [path |-> path, attrs |-> Construct(cls, args)]
            IN /\ components' = <<component>> \o components
               /\ result' = [op |-> "register", status |-> "ok", kwargs |-> kwargs,
                             args |-> args, path |-> path]
    /\ UNCHANGED <<dirExists, files, default_values, resolved>>

\* Register that reads the default preset's file again at every call
RegisterReload(cls, chain, kwargs) ==
    /\ Len(components) < MaxComponents
    /\ IF "label" \notin DOMAIN kwargs
       THEN /\ result' = [op |-> "register", status |-> "KeyError", kwargs |-> kwargs]
            /\ UNCHANGED components
       ELSE LET path == ResolvePath(chain, kwargs["label"])
                reread == LoadConfigs(files, ResolveFile(default_filename)).data
                args == DictUnpack(kwargs, Get(reread, path, EmptyDict))
                component == [path |-> path, attrs |-> Construct(cls, args)]
            IN /\ components' = Append(components, component)
               /\ result' = [op |-> "register", status |-> "ok", kwargs |-> kwargs,
                             args |-> args, path |-> path]
    /\ UNCHANGED <<dirExists, files, default_values, resolved>>

Register(cls, chain, kwargs) ==
    /\ Len(components) < MaxComponents
    /\ IF "label" \notin DOMAIN kwargs
       THEN /\ result' = [op |-> "register", status |-> "KeyError", kwargs |-> kwargs]
            /\ UNCHANGED components
       ELSE LET path == ResolvePath(chain, kwargs["label"])
                args == DictUnpack(kwargs, Get(default_values.data, path, EmptyDict))
                component == [path |-> path, attrs |-> Construct(cls, args)]
            IN /\ components' = Append(components, component)
               /\ result' = [op |-> "register", status |-> "ok", kwargs |-> kwargs,
                             args |-> args, path |-> path]
    /\ UNCHANGED <<dirExists, files, default_values, resolved>>

\* a widget changes one of its own attributes
WidgetChange(i, a, v) ==
    /\ i \in 1..Len(components)
    /\ a \in DOMAIN components[i].attrs
    /\ v \in AttrValues(a)
    /\ components[i].attrs[a] # v
    /\ components' = [components EXCEPT ![i].attrs[a] = v]
    /\ result' = [op |-> "change", status |-> "ok"]
    /\ UNCHANGED <<dirExists, files, default_values, resolved>>

----------------------------------------------------------------------------
(* Preset.load *)

\* Load that creates base_dir, as save does
LoadMkdir(filename) ==
    /\ LET path == ResolveFile(filename) IN
       result' =
         IF LoadRaises(files, path)
         THEN [op |-> "load", name |-> filename, status |-> "JSONDecodeError"]
         ELSE [op |-> "load", name |-> filename, status |-> "ok",
               path |-> path, configs |-> LoadConfigs(files, path)]
    /\ dirExists' = TRUE
    /\ UNCHANGED <<files, default_values, components, resolved>>

Load(filename) ==
    /\ LET path == ResolveFile(filename) IN
       result' =
         IF LoadRaises(files, path)
         THEN [op |-> "load", name |-> filename, status |-> "JSONDecodeError"]
         ELSE [op |-> "load", name |-> filename, status |-> "ok",
               path |-> path, configs |-> LoadConfigs(files, path)]
    /\ UNCHANGED <<dirExists, files, default_values, components, resolved>>

----------------------------------------------------------------------------
(* Preset.save *)

\* StoreAttr without config.get: the widget's attribute replaces the stored one
StoreAttrOverwrite(component, config, attr) ==
    IF HasAttr(component, attr)
    THEN Put(config, attr, component.attrs[attr])
    ELSE config

\* config[attr] = config.get(attr, getattr(component, attr)), under hasattr
StoreAttr(component, config, attr) ==
    IF HasAttr(component, attr)
    THEN Put(config, attr, Get(config, attr, component.attrs[attr]))
    ELSE config

RECURSIVE StoreAttrs(_, _, _)
StoreAttrs(component, config, k) ==
    IF k > Len(SavedAttrs) THEN config
    ELSE StoreAttrs(component, StoreAttr(component, config, SavedAttrs[k]), k + 1)

\* SaveConfig with the value treated like the attributes: kept once stored
SaveConfigKeepValue(component, configs, value) ==
    LET config == Get(configs, component.path, EmptyDict)
    IN StoreAttrs(component, Put(config, "value", Get(config, "value", value)), 1)

\* one pass of the loop body: the bag of the component's path after it
SaveConfig(component, configs, value) ==
    StoreAttrs(component, Put(Get(configs, component.path, EmptyDict), "value", value), 1)

\* the loop over enumerate(self.components), from position index on
RECURSIVE SaveLoop(_, _, _, _)
SaveLoop(comps, values, configs, index) ==
    IF index > Len(comps) THEN configs
    ELSE SaveLoop(comps, values,
                  Put(configs, comps[index].path,
                      SaveConfig(comps[index], configs, values[index])),
                  index + 1)

\* what save raises, "ok" when it returns (path is the resolved file; the
\* empty path is base_dir itself)
SaveStatus(path, values) ==
    IF LoadRaises(files, path) THEN "JSONDecodeError"
    ELSE IF components # <<>> /\ LoadConfigs(files, path).kind = "array"
         THEN "AttributeError"
    ELSE IF Len(values) < Len(components) THEN "IndexError"
    ELSE IF path = <<>> \/ (path \in DOMAIN files /\ files[path].kind = "directory")
         THEN "IsADirectoryError"
    ELSE "ok"

\* Written without the load: the file holds the registered widgets only
WrittenReplace(path, values) ==
    ObjectFile(JsonObject(SaveLoop(components, values, EmptyDict, 1)))

\* json.dumps(configs) as path.write_text leaves it on disk
Written(path, values) ==
    LET loaded == LoadConfigs(files, path) IN
    IF loaded.kind = "array" THEN ArrayFile
    ELSE ObjectFile(JsonObject(SaveLoop(components, values, loaded.data, 1)))

\* MkdirReached with base_dir.mkdir moved before the loop over the widgets
MkdirReachedEarly(status) == status \in {"ok", "IsADirectoryError", "IndexError"}

\* base_dir.mkdir is reached once the loop has ended without raising
MkdirReached(status) == status \in {"ok", "IsADirectoryError"}

Save(filename, values) ==
    LET path == ResolveFile(filename)
        status == SaveStatus(path, values)
    IN /\ dirExists' = (dirExists \/ MkdirReached(status))
       /\ files' = IF status = "ok"
                   THEN [f \in DOMAIN files \cup {path} |->
                            IF f = path THEN Written(path, values) ELSE files[f]]
                   ELSE files
       /\ result' = IF status = "ok"
                    THEN [op |-> "save", name |-> filename, status |-> status,
                          path |-> path, values |-> values,
                          message |-> "successfully saved the preset"]
                    ELSE [op |-> "save", name |-> filename, status |-> status,
                          given |-> Len(values)]
       /\ UNCHANGED <<default_values, components, resolved>>

----------------------------------------------------------------------------
(* Preset.apply *)

\* the stale-choice test of the loop body
StaleChoice(component, config) ==
    /\ "value" \in DOMAIN config
    /\ HasAttr(component, "choices")
    /\ config["value"] \notin component.attrs["choices"]

\* AppliedConfig without the test: a stale choice is passed on
AppliedConfigKeep(component, config) == config

\* config after the test: config['value'] = None on a stale choice
AppliedConfig(component, config) ==
    IF StaleChoice(component, config) THEN Put(config, "value", None) ELSE config

\* the loop over self.components from position index on; config is the dict
\* held by values, so the assignment to config['value'] shows in values
RECURSIVE ApplyLoop(_, _, _, _)
ApplyLoop(comps, values, outputs, index) ==
    IF index > Len(comps) THEN outputs
    ELSE LET path == comps[index].path
             config == AppliedConfig(comps[index], Get(values, path, EmptyDict))
         IN ApplyLoop(comps,
                      IF path \in DOMAIN values THEN Put(values, path, config) ELSE values,
                      Append(outputs, config),
                      index + 1)

\* ApplyStatus with the file read without the is_file test
ApplyStatusNoFile(path) ==
    IF ~IsFile(files, path) THEN "FileNotFoundError"
    ELSE IF LoadRaises(files, path) THEN "JSONDecodeError"
    ELSE IF components # <<>> /\ LoadConfigs(files, path).kind = "array"
         THEN "AttributeError"
    ELSE "ok"

ApplyStatus(path) ==
    IF LoadRaises(files, path) THEN "JSONDecodeError"
    ELSE IF components # <<>> /\ LoadConfigs(files, path).kind = "array"
         THEN "AttributeError"
    ELSE "ok"

\* whether the call before this one was a save that wrote the file at path
FollowsSave(path) ==
    /\ result.op = "save"
    /\ result.status = "ok"
    /\ ResolveFile(result.name) = path

Apply(filename) ==
    /\ LET path == ResolveFile(filename)
           status == ApplyStatus(path)
           follows == FollowsSave(path)
       IN result' =
            IF status # "ok"
            THEN [op |-> "apply", name |-> filename, status |-> status]
            ELSE [op |-> "apply", name |-> filename, status |-> "ok", path |-> path,
                  outputs |-> ApplyLoop(components, LoadConfigs(files, path).data, <<>>, 1),
                  message |-> "successfully loaded the preset",
                  follows_save |-> follows,
                  saved |-> IF follows THEN result.values ELSE <<>>]
    /\ UNCHANGED <<dirExists, files, default_values, components, resolved>>

----------------------------------------------------------------------------
(* Preset.list *)

\* PresetFiles without the is_file filter
PresetFilesAnyEntry == {f \in DOMAIN files : EndsWith(f, JsonExt)}

\* base_dir.glob('*.json') filtered by is_file
PresetFiles == {f \in DOMAIN files : EndsWith(f, JsonExt) /\ IsFile(files, f)}

List ==
    /\ \E presets \in [1..Cardinality(PresetFiles) -> PresetFiles] :
          /\ {presets[i] : i \in DOMAIN presets} = PresetFiles
          /\ result' = [op |-> "list", status |-> "ok",
                        presets |-> IF Len(presets) < 1
                                    THEN Append(presets, default_filename)
                                    ELSE presets]
    /\ UNCHANGED <<dirExists, files, default_values, components, resolved>>

----------------------------------------------------------------------------
(* The store's next-state relation *)

Next ==
    \/ \E cls \in Classes, chain \in Chains, kwargs \in KwargSets :
          Register(cls, chain, kwargs)
    \/ \E i \in 1..MaxChanging, a \in {"visible", "min", "max", "step", "choices"} :
          \E v \in AttrValues(a) : WidgetChange(i, a, v)
    \/ \E filename \in Names : Load(filename)
    \/ \E filename \in SaveNames, values \in ValueSeqs : Save(filename, values)
    \/ \E filename \in Names : Apply(filename)
    \/ List

Spec == Init /\ [][Next]_vars

----------------------------------------------------------------------------
(* The path resolver on its own: the walk of Preset.component over trees   *)
(* of any shape, two resolutions kept side by side                         *)

PathLabels == {<<"a">>, <<"b">>, <<"a", "/", "b">>}

Ancestors == {Anonymous} \cup {Labelled(l) : l \in PathLabels}

PathChains == UNION {[1..n -> Ancestors] : n \in 0..MaxDepth}

\* the labels of the label-declaring ancestors, root first, then the own label
LabelSequence(chain, label) == WalkParents(chain, <<label>>)

Resolve(chain, label) ==
    /\ Cardinality(resolved) < 2
    /\ resolved' = resolved \cup
          {[chain |-> chain, label |-> label, path |-> ResolvePath(chain, label)]}
    /\ UNCHANGED <<dirExists, files, default_values, components, result>>

InitPath ==
    /\ dirExists = FALSE
    /\ files = NoFiles
    /\ default_values = ObjectFile(EmptyDict)
    /\ components = <<>>
    /\ result = NoResult
    /\ resolved = {}

NextPath == \E chain \in PathChains, label \in PathLabels : Resolve(chain, label)

SpecPath == InitPath /\ [][NextPath]_vars

----------------------------------------------------------------------------
(* A session that saves to the default preset's own name                   *)

InitDefault ==
    /\ dirExists = FullStore.exists
    /\ files = FullStore.files
    /\ default_values = LoadConfigs(FullStore.files, ResolveFile(default_filename))
    /\ components = <<>>
    /\ result = NoResult
    /\ resolved = {}

NextDefault ==
    \/ \E cls \in Classes, chain \in Chains, kwargs \in KwargSets :
          Register(cls, chain, kwargs)
    \/ \E values \in ValueSeqs : Save(default_filename, values)

SpecDefault == InitDefault /\ [][NextDefault]_vars

----------------------------------------------------------------------------
(* sanitize_filename_part on its own: texts made of a few characters, a    *)
(* run of one character and a few characters more, around the length limit *)

SanitizeChars == {" ", ".", "/", "a"}

Affixes == UNION {[1..n -> SanitizeChars] : n \in 0..MaxAffix}

Fillers == {"a", "."}

FillLens == {0} \cup
    ((max_filename_part_length - MaxAffix - 1)..max_filename_part_length)

Filler(c, n) == [i \in 1..n |-> c]

Sanitize(text, replace_spaces) ==
    /\ resolved = {}
    /\ resolved' =
          {[text |-> text, replace_spaces |-> replace_spaces,
            once |-> sanitize_filename_part(text, replace_spaces),
            twice |-> sanitize_filename_part(
                          sanitize_filename_part(text, replace_spaces),
                          replace_spaces)]}
    /\ UNCHANGED <<dirExists, files, default_values, components, result>>

InitSanitize == InitPath

NextSanitize ==
    /\ resolved = {}
    /\ \E pre, post \in Affixes, c \in Fillers, n \in FillLens, replace_spaces \in BOOLEAN :
          Sanitize(pre \o Filler(c, n) \o post, replace_spaces)

SpecSanitize == InitSanitize /\ [][NextSanitize]_vars

----------------------------------------------------------------------------
(* A session over preset names of many shapes: with and without the        *)
(* extension, longer than the sanitizer's limit, with separators and dots  *)

LongName == Filler("a", max_filename_part_length - Len(JsonExt) + 1)
DotsName == Filler(".", max_filename_part_length)
ParentName == <<".", ".", "/", "x">>
BackslashName == <<"\\", "x">>

NameTexts == {P1, P1 \o JsonExt, LongName, DotsName, ParentName, BackslashName}

NameKwargs == {[k \in {"label"} |-> <<"T">>]}

\* no value at all, or one value per widget a full registry holds
NameValueSeqs == {<<>>} \cup [1..MaxComponents -> {"v1"}]

InitNames ==
    /\ dirExists = FALSE
    /\ files = NoFiles
    /\ default_values = LoadConfigs(NoFiles, ResolveFile(default_filename))
    /\ components = <<>>
    /\ result = NoResult
    /\ resolved = {}

NextNames ==
    \/ \E chain \in Chains, kwargs \in NameKwargs : Register(Slider, chain, kwargs)
    \/ \E filename \in NameTexts : Load(filename)
    \/ \E filename \in NameTexts, values \in NameValueSeqs : Save(filename, values)
    \/ \E filename \in NameTexts : Apply(filename)
    \/ List

SpecNames == InitNames /\ [][NextNames]_vars

----------------------------------------------------------------------------
(* Vocabulary of the properties *)

RegisteredPaths == {components[i].path : i \in 1..Len(components)}

DistinctPaths ==
    \A i, j \in 1..Len(components) : i # j => components[i].path # components[j].path

\* the mapping held by the file at path, {} without such a file
StoredIn(path) == LoadConfigs(files, path).data

ApplyReturned == result.op = "apply" /\ result.status = "ok"

SaveReturned == result.op = "save" /\ result.status = "ok"

\* the position of the last registered widget that has the path of widget i
LastWithPath(i) ==
    CHOOSE j \in 1..Len(components) :
        /\ components[j].path = components[i].path
        /\ \A k \in 1..Len(components) : components[k].path = components[i].path => k <= j

\* the position of the first registered widget at path p that has attribute a
FirstExposing(p, a) ==
    CHOOSE j \in 1..Len(components) :
        /\ components[j].path = p /\ HasAttr(components[j], a)
        /\ \A k \in 1..Len(components) :
              components[k].path = p /\ HasAttr(components[k], a) => j <= k

----------------------------------------------------------------------------
(* C1 *)

RegisterSeeded ==
    /\ result.op = "register"
    /\ result.status = "ok"
    /\ result.path \in DOMAIN default_values.data

\* C1 as stated: when the default preset has a bag for the new widget's path,
\* every construction argument the caller passed that the bag also holds is
\* used with the caller's value.
C1_CallerWins ==
    RegisterSeeded =>
        \A k \in DOMAIN result.kwargs \cap DOMAIN default_values.data[result.path] :
            result.args[k] = result.kwargs[k]

\* C1 amended: when the default preset has a bag for the new widget's path,
\* the widget is constructed with the caller's arguments merged with the bag
\* such that every key of the bag is used with the bag's value; the caller's
\* arguments fill in only the keys the bag does not hold.
C1_PresetWins ==
    RegisterSeeded =>
        LET bag == default_values.data[result.path] IN
        /\ DOMAIN result.args = DOMAIN result.kwargs \cup DOMAIN bag
        /\ \A k \in DOMAIN bag : result.args[k] = bag[k]
        /\ \A k \in DOMAIN result.kwargs \ DOMAIN bag : result.args[k] = result.kwargs[k]
        /\ components[Len(components)].path = result.path
        /\ \A a \in DOMAIN bag \cap DOMAIN components[Len(components)].attrs :
              components[Len(components)].attrs[a] = bag[a]

\* a widget was registered with a value and a visible flag that both differ
\* from the ones the default preset holds for its path
C1_Witness ==
    /\ RegisterSeeded
    /\ \E k \in DOMAIN result.kwargs \cap DOMAIN default_values.data[result.path] :
          result.kwargs[k] # default_values.data[result.path][k]

----------------------------------------------------------------------------
(* C2 *)

RoundTrip ==
    /\ ApplyReturned
    /\ result.follows_save
    /\ Len(result.saved) = Len(components)

\* C2 as stated: for any registry, save(name, v1..vn) then apply(name) yields
\* n directives in registration order, and the directive of every widget
\* without a choice set carries the value vi supplied for it (read in the
\* claim's favour: equal as the JSON codec gives vi back).
C2_RoundTripAny ==
    RoundTrip =>
        /\ Len(result.outputs) = Len(components)
        /\ \A i \in 1..Len(components) :
              ~HasAttr(components[i], "choices") =>
                  /\ "value" \in DOMAIN result.outputs[i]
                  /\ result.outputs[i]["value"] = JsonDumpsLoads(result.saved[i])

\* C2 amended: for a registry of n widgets with pairwise distinct paths, a
\* save(name, v1..vn) that returns, then apply(name), yields n directives in
\* registration order, and the directive of every widget without a choice
\* set carries vi as the JSON codec gives it back (vi itself for a value JSON
\* holds exactly, a list for a tuple).
C2_RoundTripDistinct ==
    RoundTrip /\ DistinctPaths =>
        /\ Len(result.outputs) = Len(components)
        /\ \A i \in 1..Len(components) :
              ~HasAttr(components[i], "choices") =>
                  /\ "value" \in DOMAIN result.outputs[i]
                  /\ result.outputs[i]["value"] = JsonDumpsLoads(result.saved[i])

\* two widgets at different paths, the first without a choice set, saved
\* with two different values and applied
C2_Witness ==
    /\ RoundTrip
    /\ DistinctPaths
    /\ Len(components) = 2
    /\ ~HasAttr(components[1], "choices")
    /\ result.saved[1] # result.saved[2]
    /\ result.outputs[1]["value"] = JsonDumpsLoads(result.saved[1])

----------------------------------------------------------------------------
(* C3 *)

ObjectFiles(fs) == {f \in DOMAIN fs : fs[f].kind = "object"}

\* an attribute a bag holds before a step is held, with the same value, after
AttrsKept ==
    \/ files' = files
    \/ \A f \in ObjectFiles(files) : \A p \in DOMAIN files[f].data :
          \A k \in 1..Len(SavedAttrs) :
              SavedAttrs[k] \in DOMAIN files[f].data[p] =>
                  /\ f \in ObjectFiles(files')
                  /\ p \in DOMAIN files'[f].data
                  /\ SavedAttrs[k] \in DOMAIN files'[f].data[p]
                  /\ files'[f].data[p][SavedAttrs[k]] = files[f].data[p][SavedAttrs[k]]

SaveStep == result'.op = "save" /\ result'.status = "ok"

\* an attribute a save stores for the first time is the attribute, as it is at
\* that save, of the first registered widget at that path that has it
AttrsRecorded ==
    SaveStep =>
        LET before == LoadConfigs(files, result'.path).data
            after == LoadConfigs(files', result'.path).data
        IN \A p \in RegisteredPaths : \A k \in 1..Len(SavedAttrs) :
              LET a == SavedAttrs[k] IN
              /\ (\E i \in 1..Len(components) :
                      components[i].path = p /\ HasAttr(components[i], a))
              /\ ~(p \in DOMAIN before /\ a \in DOMAIN before[p])
              => /\ a \in DOMAIN after[p]
                 /\ after[p][a] = JsonDumpsLoads(components[FirstExposing(p, a)].attrs[a])

\* after a save, the value stored for the path of widget i is the value
\* supplied at position j
ValueStored(i, j) ==
    /\ components[i].path \in DOMAIN StoredIn(result.path)
    /\ "value" \in DOMAIN StoredIn(result.path)[components[i].path]
    /\ StoredIn(result.path)[components[i].path]["value"] = JsonDumpsLoads(result.values[j])

\* C3 as stated: over any saves to one name, a stored visible/min/max/step
\* is the one the first save that stored it recorded and no later save
\* changes it, and the stored value of every registered widget is the value
\* supplied for that widget at the most recent save.
C3_FirstSaveWins ==
    [][/\ AttrsKept
       /\ AttrsRecorded
       /\ SaveStep =>
              \A i \in 1..Len(components') : ValueStored(i, i)']_vars

\* C3 amended: over any saves to one name, a stored visible/min/max/step is
\* the one the first save that stored it recorded (the attribute of the first
\* registered widget at that path that has it) and no later save changes it,
\* and the value stored at a registered widget's path is the value supplied,
\* at the most recent save, for the last registered widget with that path.
C3_FirstSaveWinsLastWidget ==
    [][/\ AttrsKept
       /\ AttrsRecorded
       /\ SaveStep =>
              \A i \in 1..Len(components') : ValueStored(i, LastWithPath(i))']_vars

\* a save has returned and the file keeps, for a registered widget, a visible
\* flag that is no longer the widget's own, next to the value just supplied
C3_Witness ==
    /\ SaveReturned
    /\ \E i \in 1..Len(components) :
          /\ HasAttr(components[i], "visible")
          /\ ValueStored(i, i)
          /\ "visible" \in DOMAIN StoredIn(result.path)[components[i].path]
          /\ StoredIn(result.path)[components[i].path]["visible"]
                # components[i].attrs["visible"]

----------------------------------------------------------------------------
(* C4 *)

\* apply returned and widget i, which has a choice set, has a stored value
\* that is none of its choices
StaleStored(i) ==
    /\ ApplyReturned
    /\ i \in 1..Len(components)
    /\ HasAttr(components[i], "choices")
    /\ components[i].path \in DOMAIN StoredIn(result.path)
    /\ "value" \in DOMAIN StoredIn(result.path)[components[i].path]
    /\ StoredIn(result.path)[components[i].path]["value"]
          \notin components[i].attrs["choices"]

OthersIntact(i) ==
    LET stored == StoredIn(result.path)[components[i].path] IN
    /\ DOMAIN result.outputs[i] \ {"value"} = DOMAIN stored \ {"value"}
    /\ \A k \in DOMAIN stored \ {"value"} : result.outputs[i][k] = stored[k]

\* C4 as stated: the directive of a choice widget whose stored value is none
\* of its current choices has no value attribute at all, and carries every
\* other stored attribute unchanged; apply raises nothing.
C4_StaleValueAbsent ==
    \A i \in 1..MaxComponents :
        StaleStored(i) => OthersIntact(i) /\ "value" \notin DOMAIN result.outputs[i]

\* C4 amended: the directive of a choice widget whose stored value is none of
\* its current choices is passed the value attribute set to None, and carries
\* every other stored attribute unchanged; apply raises nothing.
C4_StaleValueNone ==
    \A i \in 1..MaxComponents :
        StaleStored(i) =>
            /\ OthersIntact(i)
            /\ "value" \in DOMAIN result.outputs[i]
            /\ result.outputs[i]["value"] = None

\* apply met a stale choice in a bag that holds other attributes too
C4_Witness ==
    \E i \in 1..MaxComponents :
        /\ StaleStored(i)
        /\ DOMAIN StoredIn(result.path)[components[i].path] # {"value"}

----------------------------------------------------------------------------
(* C5 *)

\* C5: a save leaves every entry of the file whose path is the path of no
\* registered widget in the file, with the bag it had.
C5_SaveMerges ==
    [][\/ files' = files
       \/ \A f \in ObjectFiles(files) : \A p \in DOMAIN files[f].data \ RegisteredPaths :
             /\ f \in ObjectFiles(files')
             /\ p \in DOMAIN files'[f].data
             /\ files'[f].data[p] = files[f].data[p]]_vars

\* a save of a registered widget has rewritten a file that holds an entry for
\* a path no widget is registered at
C5_Witness ==
    /\ SaveReturned
    /\ components # <<>>
    /\ RegisteredPaths \subseteq DOMAIN StoredIn(result.path)
    /\ DOMAIN StoredIn(result.path) \ RegisteredPaths # {}

----------------------------------------------------------------------------
(* C6 *)

\* C6: apply on a name that resolves to no file returns one directive per
\* registered widget, each built from an empty bag, then the confirmation.
C6_ApplyNoFile ==
    (result.op = "apply" /\ ResolveFile(result.name) \notin DOMAIN files) =>
        /\ result.status = "ok"
        /\ Len(result.outputs) = Len(components)
        /\ \A i \in 1..Len(components) : result.outputs[i] = EmptyDict
        /\ result.message = "successfully loaded the preset"

\* apply ran over two registered widgets with no file to read
C6_Witness ==
    /\ result.op = "apply"
    /\ ResolveFile(result.name) \notin DOMAIN files
    /\ Len(components) = 2
    /\ Len(result.outputs) = 2

----------------------------------------------------------------------------
(* C7 *)

\* C7: a step that is no save (apply, load, list, register) leaves the files
\* of the preset directory, their content and the directory as they were.
C7_OnlySaveWrites ==
    [][result'.op # "save" => files' = files /\ dirExists' = dirExists]_vars

\* apply has replaced a stale value in the mapping it loaded, and the file
\* still holds the stale value
C7_Witness ==
    \E i \in 1..MaxComponents :
        /\ StaleStored(i)
        /\ result.outputs[i]["value"] = None
        /\ StoredIn(result.path)[components[i].path]["value"] # None

----------------------------------------------------------------------------
(* C8 *)

\* C8: a register whose own label is absent or empty fails: it constructs no
\* widget and leaves the registry as it was.
C8_InvalidLabel ==
    [][(/\ result'.op = "register"
        /\ \/ "label" \notin DOMAIN result'.kwargs
           \/ result'.kwargs["label"] = <<>>)
       => result'.status # "ok" /\ components' = components]_vars

----------------------------------------------------------------------------
(* C9 *)

\* C9: two resolutions whose label sequences (labelled ancestors, root
\* first, then the own label) differ give different paths, and two whose
\* label sequences are the same give the same path.
C9_PathInjective ==
    \A r1, r2 \in resolved :
        LabelSequence(r1.chain, r1.label) = LabelSequence(r2.chain, r2.label)
            <=> r1.path = r2.path

----------------------------------------------------------------------------
(* C10 *)

\* C10: list returns the default file name alone when the directory holds no
\* regular file named *.json (or does not exist), and otherwise the names of
\* exactly those files, each once; never an empty sequence.
C10_ListNeverEmpty ==
    result.op = "list" =>
        LET found == {f \in DOMAIN files :
                         files[f].kind # "directory" /\ EndsWith(f, JsonExt)}
        IN /\ Len(result.presets) >= 1
           /\ IF found = {} \/ ~dirExists
              THEN result.presets = <<default_filename>>
              ELSE /\ {result.presets[i] : i \in 1..Len(result.presets)} = found
                   /\ Len(result.presets) = Cardinality(found)

\* list ran on a directory that holds two presets next to a file and a
\* directory it must leave out
C10_Witness ==
    /\ result.op = "list"
    /\ Len(result.presets) = 2
    /\ Cardinality(DOMAIN files) > 2

----------------------------------------------------------------------------
(* C11 *)

\* the file a name resolves to exists and does not hold a mapping from path
\* to attribute bag
CorruptAt(fs, name) ==
    LET path == ResolveFile(name)
    IN IsFile(fs, path) /\ fs[path].kind # "object"

\* C11: a load, save or apply on a name whose file exists but does not hold a
\* well-formed mapping from path to attribute bag fails with an error, and
\* leaves the file's content as it was.
C11_CorruptPreset ==
    [][(/\ result'.op \in {"load", "save", "apply"}
        /\ CorruptAt(files, result'.name))
       => result'.status # "ok" /\ files' = files]_vars

----------------------------------------------------------------------------
(* C12 *)

\* the mapping of the default preset's file when the Preset was constructed
AtConstruction == LoadConfigs(FullStore.files, ResolveFile(default_filename)).data

\* C12: the defaults every register merges are those of the default preset's
\* file as it was at construction, whatever has been saved to the default
\* preset's name since.
C12_DefaultsReadOnce ==
    /\ default_values.data = AtConstruction
    /\ (result.op = "register" /\ result.status = "ok") =>
          result.args = DictUnpack(result.kwargs,
                                   Get(AtConstruction, result.path, EmptyDict))

\* a widget was registered after a save to the default preset's name had
\* replaced the value stored for its path, and was seeded with the old value
C12_Witness ==
    /\ result.op = "register"
    /\ result.status = "ok"
    /\ result.path \in DOMAIN AtConstruction
    /\ StoredIn(ResolveFile(default_filename))[result.path]["value"]
          # AtConstruction[result.path]["value"]
    /\ result.args["value"] = AtConstruction[result.path]["value"]

----------------------------------------------------------------------------
(* C13 *)

\* C13: sanitizing a sanitized text returns it unchanged; the sanitized text
\* holds no forbidden character, does not start with a space, does not end
\* with a space or a period and is at most 128 long; sanitized as the store
\* does it (spaces replaced, the default), it holds no space.
C13_SanitizeIdempotent ==
    \A r \in resolved :
        /\ r.twice = r.once
        /\ \A i \in 1..Len(r.once) : r.once[i] \notin invalid_filename_chars
        /\ r.replace_spaces => \A i \in 1..Len(r.once) : r.once[i] # " "
        /\ r.once # <<>> =>
              /\ r.once[1] # " "
              /\ r.once[Len(r.once)] \notin {" ", "."}
        /\ Len(r.once) <= max_filename_part_length

\* a text longer than the limit whose cut leaves a period at the end, which
\* is then stripped
C13_Witness ==
    \E r \in resolved :
        /\ r.replace_spaces
        /\ Len(r.text) > max_filename_part_length
        /\ r.text[max_filename_part_length] = "."
        /\ r.once # <<>>
        /\ Len(r.once) < max_filename_part_length

----------------------------------------------------------------------------
(* C14 *)

PathsOf(comps) == [i \in 1..Len(comps) |-> comps[i].path]

\* C14: a register that returns appends exactly one entry, with the resolved
\* path, at the end of the registry and leaves the entries before it as they
\* were; a register that raises, and every save, apply, load and list, leave
\* the registry as it was; no step changes the path of a registered widget.
C14_RegistryGrows ==
    [][/\ (result'.op = "register" /\ result'.status = "ok") =>
              /\ Len(components') = Len(components) + 1
              /\ SubSeq(components', 1, Len(components)) = components
              /\ components'[Len(components')].path = result'.path
       /\ (result'.op = "register" /\ result'.status # "ok") =>
              components' = components
       /\ result'.op \in {"save", "apply", "load", "list"} =>
              components' = components
       /\ result'.op = "change" => PathsOf(components') = PathsOf(components)]_vars

\* two different widgets are registered, in the order of their register
\* calls, and a save has run over them
C14_Witness ==
    /\ SaveReturned
    /\ Len(components) = 2
    /\ components[1] # components[2]
    /\ result.values # <<>>

----------------------------------------------------------------------------
(* C15 *)

\* the labels of the ancestors of chain that declare one, the root's first
RECURSIVE RootFirstLabels(_)
RootFirstLabels(chain) ==
    IF chain = <<>> THEN <<>>
    ELSE LET outer == RootFirstLabels(SubSeq(chain, 1, Len(chain) - 1))
             root == chain[Len(chain)]
         IN IF root.has_label THEN <<root.label>> \o outer ELSE outer

\* C15: the path of a widget is the labels of all its label-declaring
\* ancestors, from the root down to the immediate container, then its own
\* label, joined by '/'; an ancestor without a label adds nothing and does
\* not end the walk.
C15_SkipsAnonymous ==
    \A r \in resolved :
        r.path = Join(RootFirstLabels(r.chain) \o <<r.label>>, <<"/">>)

\* a widget whose immediate container has no label, under a labelled one:
\* the path starts with the outer container's label
C15_Witness ==
    \E r \in resolved :
        /\ Len(r.chain) = 2
        /\ ~r.chain[1].has_label
        /\ r.chain[2].has_label
        /\ r.path = r.chain[2].label \o <<"/">> \o r.label

----------------------------------------------------------------------------
(* C16 *)

\* C16: when two registered widgets have the same path, apply builds the
\* directive of each from the bag the file stores for that path (the value
\* replaced only when the widget itself has a choice set that lacks it),
\* whatever the other widget is and whichever was registered first.
C16_DuplicatesSameConfig ==
    ApplyReturned =>
        \A i, j \in 1..Len(components) :
            (i # j /\ components[i].path = components[j].path) =>
                result.outputs[i] =
                    AppliedConfig(components[i],
                                  Get(StoredIn(result.path), components[i].path, EmptyDict))

----------------------------------------------------------------------------
(* C17 *)

\* the number of values the last save was called with
ValuesGiven == IF result.status = "ok" THEN Len(result.values) ELSE result.given

\* C17: a save called with fewer values than there are registered widgets
\* raises, and the preset directory (created or not) and its files are after
\* the call exactly what they were before it.
C17_FailedSaveAtomic ==
    [][(result'.op = "save" /\ ValuesGiven' < Len(components)) =>
          /\ result'.status # "ok"
          /\ files' = files
          /\ dirExists' = dirExists]_vars

\* a save with too few values has failed in a session whose preset directory
\* does not exist, and the directory still does not exist
C17_Witness ==
    /\ result.op = "save"
    /\ result.status = "IndexError"
    /\ ValuesGiven < Len(components)
    /\ ~dirExists

----------------------------------------------------------------------------
(* C18 *)

\* C18: once save(name, ...) has returned, a list that follows holds the name
\* of the file the preset was written to, and a load(name) that follows
\* returns the mapping that save wrote.
C18_SavedIsListed ==
    [][SaveReturned =>
          /\ result'.op = "list" =>
                \E i \in 1..Len(result'.presets) : result'.presets[i] = result.path
          /\ (result'.op = "load" /\ result'.name = result.name) =>
                /\ result'.status = "ok"
                /\ result'.configs = files[result.path]]_vars

----------------------------------------------------------------------------
(* C19 *)

\* fname names an entry of base_dir itself: one path segment, not empty,
\* not '.' and not '..'
DirectChild(fname) ==
    /\ fname # <<>>
    /\ fname \notin {<<".">>, <<".", ".">>}
    /\ \A i \in 1..Len(fname) : fname[i] \notin {"/", "\\"}

\* C19: for every name, the file that load, save and apply resolve is a
\* direct child of the preset directory, and every file of the session is.
C19_NoEscape ==
    /\ result.op \in {"load", "save", "apply"} => DirectChild(ResolveFile(result.name))
    /\ \A f \in DOMAIN files : DirectChild(f)

====
